---- MODULE Spec2Model ----
(***************************************************************************)
(* Model of the Telegram sticker pack downloader (src/main.py).            *)
(*                                                                         *)
(* Text is a sequence of one-character strings; a few fixed pieces of text *)
(* that the program never looks inside ("addstickers", "Foo", ".tgs", ...) *)
(* are kept as one element ("chunk") of such a sequence.                   *)
(***************************************************************************)
EXTENDS Integers, Sequences, FiniteSets, TLC

VARIABLES pc, argv, token, pack_url, convert_tgs, static_format, pack_name,
          pack_info, pack_dir, i, file_path, sticker_data, fs, events,
          exit_status, s_in, s_out, run, prev_fs, prev_events, answers, replay

vars == <<pc, argv, token, pack_url, convert_tgs, static_format, pack_name,
          pack_info, pack_dir, i, file_path, sticker_data, fs, events,
          exit_status, s_in, s_out, run, prev_fs, prev_events, answers, replay>>

\* which run of the program this is, and the files and the events the run
\* before left
session == <<run, prev_fs, prev_events>>

\* the answers of the server in this run, and those a second run is given
served == <<answers, replay>>

(***************************************************************************)
(* Bounds of the model.                                                    *)
(***************************************************************************)
MaxStickers == 2
MaxUrlLen == 5
MaxHead == 1
MaxTail == 1
MaxRunOver == 2
MaxKinds == 1

\* Python's None, as a value of each kind that can be missing
None == <<"None">>
NoDoc == [t |-> "None", v |-> <<>>]
NoBytes == [enc |-> "None", body |-> <<>>]

Range(s) == {s[k] : k \in 1..Len(s)}

(***************************************************************************)
(* sanitize_filename                                                       *)
(***************************************************************************)
IllegalChars == {"<", ">", ":", "\"", "/", "\\", "|", "?", "*"}

Whitespace == {" ", "\t", "\n", "\r"}

SliceLimit == 50

RECURSIVE RemoveIllegal(_)
RemoveIllegal(name) ==
    IF name = <<>> THEN <<>>
    ELSE IF Head(name) \in IllegalChars THEN RemoveIllegal(Tail(name))
         ELSE <<Head(name)>> \o RemoveIllegal(Tail(name))

ReplaceNewlines(name) ==
    [k \in 1..Len(name) |-> IF name[k] \in {"\n", "\r"} THEN " " ELSE name[k]]

RECURSIVE LStrip(_)
LStrip(name) ==
    IF name # <<>> /\ Head(name) \in Whitespace THEN LStrip(Tail(name)) ELSE name

RECURSIVE RStrip(_)
RStrip(name) ==
    IF name # <<>> /\ name[Len(name)] \in Whitespace
    THEN RStrip(SubSeq(name, 1, Len(name) - 1))
    ELSE name

Strip(name) == RStrip(LStrip(name))

\* a bug: the slice keeps one character too many
Slice_OffByOne(name, n) == SubSeq(name, 1, IF Len(name) < n + 1 THEN Len(name) ELSE n + 1)

\* name[:n]
Slice(name, n) == SubSeq(name, 1, IF Len(name) < n THEN Len(name) ELSE n)

sanitize_filename(name) ==
    Slice(Strip(ReplaceNewlines(RemoveIllegal(name))), SliceLimit)

(***************************************************************************)
(* extract_pack_name                                                       *)
(***************************************************************************)
Marker == <<"addstickers">>

\* scheme and host of a pack URL, kept as one piece
Host == "https://t.me"

\* urlparse(url).path: what follows scheme and host, up to the query or fragment
RECURSIVE UpToQuery(_)
UpToQuery(s) ==
    IF s = <<>> \/ Head(s) \in {"?", "#"} THEN <<>>
    ELSE <<Head(s)>> \o UpToQuery(Tail(s))

\* the host part ends at the first "/", "?" or "#"
RECURSIVE DropNetloc(_)
DropNetloc(s) ==
    IF s = <<>> \/ Head(s) \in {"/", "?", "#"} THEN s ELSE DropNetloc(Tail(s))

UrlPath(url) ==
    IF url # <<>> /\ Head(url) = Host THEN UpToQuery(DropNetloc(Tail(url)))
    ELSE IF Len(url) >= 2 /\ url[1] = "/" /\ url[2] = "/"
         THEN UpToQuery(DropNetloc(Tail(Tail(url))))
         ELSE UpToQuery(url)

\* str.split('/'): the list of the segments between the separators
RECURSIVE Split(_)
Split(s) ==
    IF s = <<>> THEN << <<>> >>
    ELSE IF Head(s) = "/" THEN << <<>> >> \o Split(Tail(s))
         ELSE LET rest == Split(Tail(s))
              IN  << <<Head(s)>> \o Head(rest) >> \o Tail(rest)

extract_pack_name(url) ==
    LET path_parts == Split(UrlPath(url))
    IN  IF Marker \in Range(path_parts) THEN path_parts[Len(path_parts)] ELSE None

\* a bug: a test for None where the code tests the truth value
Truthy_NotNone(x) == x # None

\* Python truth value of the result of extract_pack_name
Truthy(x) == x # None /\ x # <<>>

(***************************************************************************)
(* Downloaded bytes.  A value of bytes is [enc, body]:                     *)
(*   enc = "gzip"              body = the text inside the gzip container   *)
(*   enc = "webp","png","jpeg" body = the picture <<pixels, alpha>>        *)
(*   enc = "utf8"              body = text encoded as UTF-8                *)
(*   enc = "junk"              neither a gzip container nor a picture      *)
(* JSON text is a sequence of tokens; a document is [t, v].                *)
(***************************************************************************)
Junk == [enc |-> "junk", body |-> <<>>]

JsonWs == {" ", "\n"}

JsonScalars == {"null", "0", "1"}

Scalar(tok) ==
    IF tok = "null" THEN [t |-> "null", v |-> <<>>] ELSE [t |-> "num", v |-> <<tok>>]

RECURSIVE SkipWs(_)
SkipWs(text) ==
    IF text = <<>> THEN <<>>
    ELSE IF Head(text) \in JsonWs THEN SkipWs(Tail(text))
         ELSE <<Head(text)>> \o SkipWs(Tail(text))

\* json.loads: the document, or None where the parser raises
json_loads(text) ==
    LET toks == SkipWs(text)
    IN  IF Len(toks) = 1 /\ toks[1] \in JsonScalars THEN Scalar(toks[1])
        ELSE IF toks = <<"{", "}">> THEN [t |-> "obj", v |-> <<>>]
        ELSE IF toks = <<"[", "]">> THEN [t |-> "arr", v |-> <<>>]
        ELSE IF Len(toks) = 3 /\ toks[1] = "[" /\ toks[2] \in JsonScalars /\ toks[3] = "]"
             THEN [t |-> "arr", v |-> <<toks[2]>>]
        ELSE IF Len(toks) = 5 /\ toks[1] = "{" /\ toks[2] = "k" /\ toks[3] = ":"
                /\ toks[4] \in JsonScalars /\ toks[5] = "}"
             THEN [t |-> "obj", v |-> <<toks[4]>>]
        ELSE NoDoc

\* json.dumps(doc, indent=2)
json_dumps(doc) ==
    IF doc.t \in {"null", "num"} THEN IF doc.t = "null" THEN <<"null">> ELSE doc.v
    ELSE IF doc.t = "arr"
         THEN IF doc.v = <<>> THEN <<"[", "]">>
              ELSE <<"[", "\n", " ", " ">> \o doc.v \o <<"\n", "]">>
    ELSE IF doc.v = <<>> THEN <<"{", "}">>
         ELSE <<"{", "\n", " ", " ", "k", ":", " ">> \o doc.v \o <<"\n", "}">>

\* gzip.decompress: the contained text, or None where it raises
gzip_decompress(data) == IF data.enc = "gzip" THEN data.body ELSE None

\* Python truth value of a parsed document
DocTruthy(doc) ==
    /\ doc # NoDoc
    /\ doc.t # "null"
    /\ doc.v # <<>>
    /\ doc.v # <<"0">> \/ doc.t # "num"

convert_tgs_to_lottie(tgs_data) ==
    LET json_data == gzip_decompress(tgs_data)
    IN  IF json_data = None THEN NoDoc ELSE json_loads(json_data)

ImageEncs == {"webp", "png", "jpeg"}

Lower(c) ==
    CASE c = "W" -> "w" [] c = "E" -> "e" [] c = "B" -> "b" [] c = "P" -> "p"
      [] c = "N" -> "n" [] c = "G" -> "g" [] c = "J" -> "j" [] c = "I" -> "i"
      [] c = "F" -> "f" [] OTHER -> c

Upper(c) ==
    CASE c = "w" -> "W" [] c = "e" -> "E" [] c = "b" -> "B" [] c = "p" -> "P"
      [] c = "n" -> "N" [] c = "g" -> "G" [] c = "j" -> "J" [] c = "i" -> "I"
      [] c = "f" -> "F" [] OTHER -> c

lower(s) == [k \in 1..Len(s) |-> Lower(s[k])]

upper(s) == [k \in 1..Len(s) |-> Upper(s[k])]

WEBP == <<"W", "E", "B", "P">>
PNG == <<"P", "N", "G">>
JPEG == <<"J", "P", "E", "G">>

\* the name of the encoding a PIL format name selects
EncOf(format_type) ==
    IF format_type = WEBP THEN "webp" ELSE IF format_type = PNG THEN "png" ELSE "jpeg"

\* Image.open / convert('RGB') / save: the new bytes, or None where PIL raises
convert_webp_to_format(webp_data, format_type) ==
    IF webp_data.enc \notin ImageEncs \/ format_type \notin {WEBP, PNG, JPEG} THEN NoBytes
    ELSE LET image == IF format_type = JPEG
                      THEN <<webp_data.body[1], "opaque">>
                      ELSE webp_data.body
         IN  [enc |-> EncOf(format_type), body |-> image]

(***************************************************************************)
(* Filenames                                                               *)
(***************************************************************************)
DigitChar(d) == <<"0", "1", "2", "3", "4", "5", "6", "7", "8", "9">>[d + 1]

RECURSIVE Decimal(_)
Decimal(n) == IF n < 10 THEN <<DigitChar(n)>> ELSE Decimal(n \div 10) \o <<DigitChar(n % 10)>>

RECURSIVE ZeroPad(_, _)
ZeroPad(s, width) == IF Len(s) >= width THEN s ELSE ZeroPad(<<"0">> \o s, width)

\* a bug: the number is left out of the field
Format03d_NoNumber(n) == ZeroPad(<<>>, 3)

\* f"{n:03d}"
Format03d(n) == ZeroPad(Decimal(n), 3)

StickerWord == <<"s", "t", "i", "c", "k", "e", "r">>

\* a bug: the loop index used as it is, numbering from 000
StickerFilename_ZeroBased(idx, emoji, extension) ==
    LET emoji_str == IF emoji # <<>> THEN emoji ELSE StickerWord
    IN  Format03d(idx) \o <<"_">> \o sanitize_filename(emoji_str) \o extension

\* line 166-167: emoji_str and filename, for loop index idx (0-based)
StickerFilename(idx, emoji, extension) ==
    LET emoji_str == IF emoji # <<>> THEN emoji ELSE StickerWord
    IN  Format03d(idx + 1) \o <<"_">> \o sanitize_filename(emoji_str) \o extension

EndsWith(s, suffix) ==
    Len(s) >= Len(suffix) /\ SubSeq(s, Len(s) - Len(suffix) + 1, Len(s)) = suffix

ManifestName == <<"pack_info.txt">>

\* os.path.join
PathJoin(dir, name) == dir \o <<"/">> \o name

\* lines 96-97: pack_dir_name and pack_dir, with base_dir = 'downloads'
PackDir(pack_title, name) ==
    PathJoin(<<"downloads">>, sanitize_filename(pack_title) \o <<" ", "(">> \o name \o <<")">>)

\* open(path, 'w'): the file is created or replaced
WriteFile(files, path, content) ==
    {f \in files : f.path # path} \cup {[path |-> path, content |-> content]}

(***************************************************************************)
(* Inputs: command lines, and what the Telegram server may answer.         *)
(***************************************************************************)
ValidUrl == <<Host, "/", "addstickers", "/", "Foo">>

PipelineUrls == {ValidUrl, <<Host, "/", "Foo">>, <<Host, "/", "addstickers", "/">>}

UrlChunks == {"/", "addstickers", "Foo", "Bar", "?"}

AllUrls ==
    LET tails == UNION {[1..n -> UrlChunks] : n \in 0..MaxUrlLen}
    IN  tails \cup {<<Host>> \o t : t \in tails}

ArgFormats == {None, <<"p", "n", "g">>, JPEG, <<"g", "i", "f">>}

Emojis == {<<>>, <<"a", "/">>}

FileId(k) == <<"f">> \o Decimal(k)

StickerLists ==
    UNION {[1..n -> Emojis] : n \in 0..MaxStickers}

Descriptors(emojis) ==
    [k \in 1..Len(emojis) |-> [file_id |-> FileId(k), emoji |-> emojis[k]]]

PackInfos ==
    {[title |-> m[1], author |-> m[2], stickers |-> Descriptors(e)] :
        m \in {<<None, None>>, <<<<"T", ":">>, <<"A">>>>}, e \in StickerLists}

TgsSuffix == <<".tgs">>

Suffixes == {TgsSuffix, <<".webp">>}

TgsBytes == [enc |-> "gzip", body |-> <<"{", "k", ":", "1", "}">>]

WebpBytes == [enc |-> "webp", body |-> <<"pixels", "alpha">>]

\* a gzip container whose text is not a JSON document
BadTgsBytes == [enc |-> "gzip", body |-> <<"{", "k">>]

Payloads(path) ==
    IF EndsWith(path, TgsSuffix) THEN {Junk, BadTgsBytes, TgsBytes} ELSE {Junk, WebpBytes}

Ev(ev, what, arg) == [ev |-> ev, what |-> what, arg |-> arg]

\* the answer to a request: kind is "raise" (no answer, the request raises),
\* "fail" (not ok, or a status other than 200) or "ok"
Answer(kind, pack, path, data) == [kind |-> kind, pack |-> pack, path |-> path, data |-> data]

NoPack == [title |-> None, author |-> None, stickers |-> <<>>]

\* a second run gets the answers of the first, in order, as far as they go
Given(ans) == IF replay = <<>> THEN TRUE ELSE ans = Head(replay)

Answered(ans) ==
    /\ answers' = Append(answers, ans)
    /\ replay' = IF replay = <<>> THEN <<>> ELSE Tail(replay)

\* a bug: every answer is taken for a success
Ok_Always(ans) == TRUE

\* lines 122 and 132: file_info.get('ok'), status_code == 200
Ok(ans) == ans.kind = "ok"

EmptyFs == [dirs |-> {}, files |-> {}]

InitWith(urls, flags, formats) ==
    /\ pc = "main"
    /\ argv \in [url : urls \cup {None}, convert_tgs : flags, static_format : formats]
    /\ token \in BOOLEAN
    /\ pack_url = None
    /\ convert_tgs = FALSE
    /\ static_format = WEBP
    /\ pack_name = None
    /\ pack_info = [title |-> None, author |-> None, stickers |-> <<>>]
    /\ pack_dir = None
    /\ i = 0
    /\ file_path = None
    /\ sticker_data = NoBytes
    /\ fs = EmptyFs
    /\ events = <<>>
    /\ exit_status = -1
    /\ s_in = <<>>
    /\ s_out = <<>>
    /\ run = 1
    /\ prev_fs = EmptyFs
    /\ prev_events = <<>>
    /\ answers = <<>>
    /\ replay = <<>>

Init == InitWith(PipelineUrls, BOOLEAN, ArgFormats)

\* sys.exit(1)
Exit1(what) ==
    /\ pc' = "exit"
    /\ exit_status' = 1
    /\ events' = Append(events, Ev("print", what, <<>>))

\* lines 176-177 and the return to main: the error is printed and the process ends
Caught(evs, e) ==
    /\ pc' = "exit"
    /\ exit_status' = 0
    /\ events' = Append(evs, Ev("print", "exception", e))

\* the loop header of line 114: the next sticker, or line 174 after the last
LoopNext(n) == IF n < Len(pack_info.stickers) THEN "getfile" ELSE "complete"

\* a bug: break where the code has continue
Continue_Break(n) == "complete"

\* continue (lines 124 and 134): on to the loop header
Continue(n) == LoopNext(n)

\* lines 179-202
Main ==
    /\ pc = "main"
    /\ IF argv.url = None
       THEN /\ Exit1("usage")
            /\ UNCHANGED <<pack_url, convert_tgs, static_format>>
       ELSE /\ pack_url' = argv.url
            /\ convert_tgs' = argv.convert_tgs
            /\ static_format' = IF argv.static_format = None THEN WEBP
                                ELSE upper(argv.static_format)
            /\ pc' = "token"
            /\ UNCHANGED <<events, exit_status>>
    /\ UNCHANGED <<argv, token, pack_name, pack_info, pack_dir, i, file_path,
                   sticker_data, fs, s_in, s_out, session, served>>

\* lines 60-66
CheckToken ==
    /\ pc = "token"
    /\ IF ~token THEN Exit1("no_token")
       ELSE pc' = "format" /\ UNCHANGED <<events, exit_status>>
    /\ UNCHANGED <<argv, token, pack_url, convert_tgs, static_format, pack_name,
                   pack_info, pack_dir, i, file_path, sticker_data, fs, s_in, s_out, session, served>>

\* lines 68-72
ValidateFormat ==
    /\ pc = "format"
    /\ IF upper(static_format) \notin {WEBP, PNG, JPEG} THEN Exit1("invalid_format")
       ELSE pc' = "extract" /\ UNCHANGED <<events, exit_status>>
    /\ UNCHANGED <<argv, token, pack_url, convert_tgs, static_format, pack_name,
                   pack_info, pack_dir, i, file_path, sticker_data, fs, s_in, s_out, session, served>>

\* lines 74-78
ResolvePackName ==
    /\ pc = "extract"
    /\ pack_name' = extract_pack_name(pack_url)
    /\ IF ~Truthy(pack_name') THEN Exit1("invalid_url")
       ELSE pc' = "metadata" /\ UNCHANGED <<events, exit_status>>
    /\ UNCHANGED <<argv, token, pack_url, convert_tgs, static_format,
                   pack_info, pack_dir, i, file_path, sticker_data, fs, s_in, s_out, session, served>>

\* lines 82-93: the getStickerSet request and its answer, the packs the
\* server may answer with being packs
GetStickerSetFrom(packs) ==
    /\ pc = "metadata"
    /\ LET sent == Append(events, Ev("request", "getStickerSet", pack_name))
       IN  \E ans \in {Answer("raise", NoPack, None, NoBytes),
                       Answer("fail", NoPack, None, NoBytes)}
                      \cup {Answer("ok", p, None, NoBytes) : p \in packs} :
              /\ Given(ans)
              /\ Answered(ans)
              /\ IF ans.kind = "raise"             \* the request or .json() raises
                 THEN /\ Caught(sent, <<"RequestException">>)
                      /\ UNCHANGED pack_info
                 ELSE IF ans.kind = "fail"         \* lines 86-88: not ok
                 THEN /\ pc' = "exit"
                      /\ exit_status' = 0
                      /\ events' = Append(sent, Ev("print", "api_error", <<>>))
                      /\ UNCHANGED pack_info
                 ELSE /\ pack_info' = [ans.pack EXCEPT !.title =
                                          IF ans.pack.title = None THEN pack_name
                                          ELSE ans.pack.title]
                      /\ pc' = "mkdir"
                      /\ events' = sent
                      /\ UNCHANGED exit_status
    /\ UNCHANGED <<argv, token, pack_url, convert_tgs, static_format, pack_name,
                   pack_dir, i, file_path, sticker_data, fs, s_in, s_out, session>>

GetStickerSet == GetStickerSetFrom(PackInfos)

\* a bug: os.makedirs called without exist_ok
ExistOk_False == FALSE

\* line 98: exist_ok=True
ExistOk == TRUE

\* os.makedirs raises FileExistsError for a directory that is there, unless
\* exist_ok is set
MakedirsRaises(dirs, path, exist_ok) == path \in dirs /\ ~exist_ok

\* lines 95-100, followed by the step at position next
MakePackDirThen(next) ==
    /\ pc = "mkdir"
    /\ pack_dir' = PackDir(pack_info.title, pack_name)
    /\ \/ /\ Caught(events, <<"OSError", "makedirs">>) \* os.makedirs raises
          /\ UNCHANGED fs
       \/ /\ MakedirsRaises(fs.dirs, pack_dir', ExistOk)
          /\ Caught(events, <<"FileExistsError">>)
          /\ UNCHANGED fs
       \/ /\ ~MakedirsRaises(fs.dirs, pack_dir', ExistOk)
          /\ fs' = [fs EXCEPT !.dirs = @ \cup {<<"downloads">>, pack_dir'}]
          /\ events' = events \o <<Ev("mkdir", "pack_dir", pack_dir'),
                                   Ev("print", "found", Decimal(Len(pack_info.stickers)))>>
          /\ pc' = next
          /\ UNCHANGED exit_status
    /\ UNCHANGED <<argv, token, pack_url, convert_tgs, static_format, pack_name,
                   pack_info, i, file_path, sticker_data, s_in, s_out, session, served>>

\* a bug: the loop is entered without the manifest having been written
MakePackDir_SkipManifest == MakePackDirThen(LoopNext(0))

\* lines 95-100, then the manifest of lines 102-111
MakePackDir == MakePackDirThen("manifest")

\* lines 105-111: the text of pack_info.txt
ManifestText ==
    <<"Pack Name: ">> \o pack_info.title \o <<"\n">>
    \o <<"Sticker Count: ">> \o Decimal(Len(pack_info.stickers)) \o <<"\n">>
    \o <<"Original URL: ">> \o pack_url \o <<"\n">>
    \o (IF pack_info.author # None THEN <<"Author: ">> \o pack_info.author \o <<"\n">>
        ELSE <<>>)
    \o <<"Static stickers format: ">> \o static_format \o <<"\n">>
    \o <<"Animated stickers saved as: ">>
    \o (IF convert_tgs THEN <<"Lottie JSON">> ELSE <<"TGS">>) \o <<"\n">>

\* lines 102-111
WriteManifest ==
    /\ pc = "manifest"
    /\ LET pack_info_path == PathJoin(pack_dir, ManifestName)
       IN  \/ /\ Caught(events, <<"OSError", "open">>) \* open or write raises
              /\ UNCHANGED <<fs, i>>
           \/ /\ fs' = [fs EXCEPT !.files =
                           WriteFile(@, pack_info_path, [enc |-> "utf8", body |-> ManifestText])]
              /\ events' = Append(events, Ev("write", "manifest", pack_info_path))
              /\ i' = 0
              /\ pc' = LoopNext(0)
              /\ UNCHANGED exit_status
    /\ UNCHANGED <<argv, token, pack_url, convert_tgs, static_format, pack_name,
                   pack_info, pack_dir, file_path, sticker_data, s_in, s_out, session, served>>

\* lines 115-126: the getFile request of sticker i+1 and its answer, the
\* suffixes of the paths the server may answer with being suffixes
GetFileFrom(suffixes) ==
    /\ pc = "getfile"
    /\ LET sticker == pack_info.stickers[i + 1]
           sent == Append(events, Ev("request", "getFile", sticker.file_id))
       IN  \E ans \in {Answer("raise", NoPack, None, NoBytes),
                       Answer("fail", NoPack, None, NoBytes)}
                      \cup {Answer("ok", NoPack, <<"stickers", "/">> \o sticker.file_id \o x,
                                   NoBytes) : x \in suffixes} :
              /\ Given(ans)
              /\ Answered(ans)
              /\ IF ans.kind = "raise"             \* the request or .json() raises
                 THEN /\ Caught(sent, <<"RequestException">>)
                      /\ UNCHANGED <<i, file_path>>
                 ELSE IF ~Ok(ans)                  \* lines 122-124: not ok, continue
                 THEN /\ events' = Append(sent, Ev("print", "failed_path", Decimal(i + 1)))
                      /\ i' = i + 1
                      /\ pc' = Continue(i + 1)
                      /\ UNCHANGED <<file_path, exit_status>>
                 ELSE /\ file_path' = ans.path
                      /\ events' = sent
                      /\ pc' = "download"
                      /\ UNCHANGED <<i, exit_status>>
    /\ UNCHANGED <<argv, token, pack_url, convert_tgs, static_format, pack_name,
                   pack_info, pack_dir, sticker_data, fs, s_in, s_out, session>>

GetFile == GetFileFrom(Suffixes)

\* lines 128-134: the download of the file and its status, the contents the
\* server may answer with being payloads
DownloadFrom(payloads) ==
    /\ pc = "download"
    /\ LET sent == Append(events, Ev("request", "download", file_path))
       IN  \E ans \in {Answer("raise", NoPack, None, NoBytes),
                       Answer("fail", NoPack, None, NoBytes)}
                      \cup {Answer("ok", NoPack, None, d) : d \in payloads} :
              /\ Given(ans)
              /\ Answered(ans)
              /\ IF ans.kind = "raise"             \* the request raises
                 THEN /\ Caught(sent, <<"RequestException">>)
                      /\ UNCHANGED <<i, sticker_data>>
                 ELSE IF ~Ok(ans)                  \* lines 132-134: not 200, continue
                 THEN /\ events' = Append(sent, Ev("print", "failed_download", Decimal(i + 1)))
                      /\ i' = i + 1
                      /\ pc' = Continue(i + 1)
                      /\ UNCHANGED <<sticker_data, exit_status>>
                 ELSE /\ sticker_data' = ans.data
                      /\ events' = sent
                      /\ pc' = "save"
                      /\ UNCHANGED <<i, exit_status>>
    /\ UNCHANGED <<argv, token, pack_url, convert_tgs, static_format, pack_name,
                   pack_info, pack_dir, file_path, fs, s_in, s_out, session>>

Download == DownloadFrom(Payloads(file_path))

\* a bug: the fallback keeps the extension of the converted file
TgsFallback_Json(data) == <<<<".json">>, data>>

\* lines 145-147: the animated sticker is kept as downloaded
TgsFallback(data) == <<<<".tgs">>, data>>

\* a bug: the flag of the descriptor decides
IsAnimated_ByFlag(path) == pack_info.stickers[i + 1].is_animated

\* line 137
IsAnimated(path) == EndsWith(path, TgsSuffix)

\* lines 138-154: the converter that is called, if any
ConverterCalls(path, conv, fmt) ==
    IF IsAnimated(path)
    THEN IF conv THEN <<Ev("call", "convert_tgs_to_lottie", <<>>)>> ELSE <<>>
    ELSE IF upper(fmt) # WEBP THEN <<Ev("call", "convert_webp_to_format", fmt)>> ELSE <<>>

\* lines 137-163: extension and sticker_content, as <<extension, sticker_content>>
Converted(path, data, conv, fmt) ==
    LET is_animated == IsAnimated(path)
    IN  IF is_animated
        THEN IF conv
             THEN LET lottie_data == convert_tgs_to_lottie(data)
                  IN  IF DocTruthy(lottie_data)
                      THEN <<<<".json">>, [enc |-> "utf8", body |-> json_dumps(lottie_data)]>>
                      ELSE TgsFallback(data)
             ELSE <<<<".tgs">>, data>>
        ELSE IF upper(fmt) # WEBP
             THEN LET converted_data == convert_webp_to_format(data, fmt)
                  IN  IF converted_data # NoBytes
                      THEN <<<<".">> \o lower(fmt), converted_data>>
                      ELSE <<<<".webp">>, data>>
             ELSE <<<<".webp">>, data>>

\* lines 136-172: conversion, filename, and the write of the sticker file
SaveSticker ==
    /\ pc = "save"
    /\ LET sticker == pack_info.stickers[i + 1]
           out == Converted(file_path, sticker_data, convert_tgs, static_format)
           filename == StickerFilename(i, sticker.emoji, out[1])
           output_path == PathJoin(pack_dir, filename)
           called == events \o ConverterCalls(file_path, convert_tgs, static_format)
       IN  \/ /\ Caught(called, <<"OSError", "open">>) \* open or write raises
              /\ UNCHANGED <<fs, i>>
           \/ /\ fs' = [fs EXCEPT !.files = WriteFile(@, output_path, out[2])]
              /\ events' = Append(called, Ev("write", "sticker", output_path))
              /\ i' = i + 1
              /\ pc' = LoopNext(i + 1)
              /\ UNCHANGED exit_status
    /\ UNCHANGED <<argv, token, pack_url, convert_tgs, static_format, pack_name,
                   pack_info, pack_dir, file_path, sticker_data, s_in, s_out, session, served>>

\* line 174 and the return to main
Complete ==
    /\ pc = "complete"
    /\ events' = Append(events, Ev("print", "complete", pack_dir))
    /\ pc' = "exit"
    /\ exit_status' = 0
    /\ UNCHANGED <<argv, token, pack_url, convert_tgs, static_format, pack_name,
                   pack_info, pack_dir, i, file_path, sticker_data, fs, s_in, s_out, session, served>>

Next ==
    \/ Main
    \/ CheckToken
    \/ ValidateFormat
    \/ ResolvePackName
    \/ GetStickerSet
    \/ MakePackDir
    \/ WriteManifest
    \/ GetFile
    \/ Download
    \/ SaveSticker
    \/ Complete

Spec == Init /\ [][Next]_vars

(***************************************************************************)
(* The start of a run, up to the answer to getStickerSet, for every URL    *)
(* of up to MaxUrlLen pieces.                                              *)
(***************************************************************************)
InitUrl == InitWith(AllUrls, {FALSE}, {None})

NextUrl ==
    \/ Main
    \/ CheckToken
    \/ ValidateFormat
    \/ ResolvePackName
    \/ GetStickerSet

SpecUrl == InitUrl /\ [][NextUrl]_vars

(***************************************************************************)
(* The kinds of sticker: packs of up to MaxKinds stickers whose descriptors *)
(* carry the flag is_animated, with every suffix of the resolved path and   *)
(* every kind of content, whatever the flag says.                          *)
(***************************************************************************)
KindPacks ==
    {[title |-> None, author |-> None,
      stickers |-> [k \in 1..Len(flags) |-> [file_id |-> FileId(k), emoji |-> <<>>,
                                    is_animated |-> flags[k]]]] :
        flags \in UNION {[1..n -> BOOLEAN] : n \in 0..MaxKinds}}

KindSuffixes == {TgsSuffix, <<".webp">>, <<".webm">>}

\* a video sticker: not a picture PIL can open
WebmBytes == [enc |-> "webm", body |-> <<"frames">>]

Gzip(text) == [enc |-> "gzip", body |-> text]

\* animated stickers of every document the parser knows, the empty ones too
TgsDocs ==
    {Gzip(<<"{", "}">>), Gzip(<<"[", "]">>), Gzip(<<"null">>), Gzip(<<"0">>),
     Gzip(<<"[", "1", "]">>), TgsBytes}

KindPayloads(path) ==
    IF EndsWith(path, TgsSuffix) THEN {Junk, BadTgsBytes} \cup TgsDocs
    ELSE {Junk, WebpBytes, WebmBytes}

InitKinds == InitWith({ValidUrl}, BOOLEAN, {None, <<"p", "n", "g">>, JPEG})

GetStickerSetKinds == GetStickerSetFrom(KindPacks)

GetFileKinds == GetFileFrom(KindSuffixes)

DownloadKinds == DownloadFrom(KindPayloads(file_path))

NextKinds ==
    \/ Main
    \/ CheckToken
    \/ ValidateFormat
    \/ ResolvePackName
    \/ GetStickerSetKinds
    \/ MakePackDir
    \/ WriteManifest
    \/ GetFileKinds
    \/ DownloadKinds
    \/ SaveSticker
    \/ Complete

SpecKinds == InitKinds /\ [][NextKinds]_vars

(***************************************************************************)
(* The names of the files: packs whose stickers have no emoji, an emoji    *)
(* that sanitize_filename removes whole, one it removes in part, and the   *)
(* word the code puts for a missing emoji.                                 *)
(***************************************************************************)
NameEmojis == {<<>>, <<"/">>, <<"a", "/">>, StickerWord}

NamePacks ==
    {[title |-> None, author |-> None, stickers |-> Descriptors(e)] :
        e \in UNION {[1..n -> NameEmojis] : n \in 0..MaxStickers}}

InitNames == InitWith({ValidUrl}, {FALSE}, {None})

GetStickerSetNames == GetStickerSetFrom(NamePacks)

NextNames ==
    \/ Main
    \/ CheckToken
    \/ ValidateFormat
    \/ ResolvePackName
    \/ GetStickerSetNames
    \/ MakePackDir
    \/ WriteManifest
    \/ GetFile
    \/ Download
    \/ SaveSticker
    \/ Complete

SpecNames == InitNames /\ [][NextNames]_vars

(***************************************************************************)
(* The program run twice on the same command line, the second run getting  *)
(* from the server the answers the first one got.  The files stay.         *)
(***************************************************************************)
InitRerun == InitWith({ValidUrl}, BOOLEAN, {None, <<"p", "n", "g">>})

\* the process is started again (lines 179-202, from the top)
Rerun ==
    /\ pc = "exit"
    /\ run = 1
    /\ run' = 2
    /\ prev_fs' = fs
    /\ prev_events' = events
    /\ replay' = answers
    /\ answers' = <<>>
    /\ pc' = "main"
    /\ events' = <<>>
    /\ exit_status' = -1
    /\ pack_url' = None
    /\ convert_tgs' = FALSE
    /\ static_format' = WEBP
    /\ pack_name' = None
    /\ pack_info' = NoPack
    /\ pack_dir' = None
    /\ i' = 0
    /\ file_path' = None
    /\ sticker_data' = NoBytes
    /\ UNCHANGED <<argv, token, fs, s_in, s_out>>

\* packs without title, author and emoji
RerunPacks ==
    {p \in PackInfos : /\ p.title = None
                       /\ p.author = None
                       /\ \A k \in 1..Len(p.stickers) : p.stickers[k].emoji = <<>>}

GetStickerSetRerun == GetStickerSetFrom(RerunPacks)

NextRerun ==
    \/ Main
    \/ CheckToken
    \/ ValidateFormat
    \/ ResolvePackName
    \/ GetStickerSetRerun
    \/ MakePackDir
    \/ WriteManifest
    \/ GetFile
    \/ Download
    \/ SaveSticker
    \/ Complete
    \/ Rerun

SpecRerun == InitRerun /\ [][NextRerun]_vars

(***************************************************************************)
(* sanitize_filename applied to one name: a head, a run of one character   *)
(* that reaches past the 50 characters kept, and a tail.                   *)
(***************************************************************************)
SanChars == IllegalChars \cup {"\n", "\r", "\t", " ", "a"}

TailChars == {"/", "\n", "\r", " ", "a"}

Strings(chars, n) == UNION {[1..m -> chars] : m \in 0..n}

Run(c, n) == [k \in 1..n |-> c]

RunLengths == {0, 1} \cup ((SliceLimit - MaxHead - MaxTail - 1)..(SliceLimit + MaxRunOver))

SanitizeInputs ==
    {h \o Run(c, n) \o t : h \in Strings(SanChars, MaxHead), c \in {"a", " "},
                           n \in RunLengths, t \in Strings(TailChars, MaxTail)}

InitSanitize ==
    /\ pc = "sanitize"
    /\ s_in \in SanitizeInputs
    /\ s_out = <<>>
    /\ argv = [url |-> None, convert_tgs |-> FALSE, static_format |-> None]
    /\ token = FALSE
    /\ pack_url = None
    /\ convert_tgs = FALSE
    /\ static_format = WEBP
    /\ pack_name = None
    /\ pack_info = [title |-> None, author |-> None, stickers |-> <<>>]
    /\ pack_dir = None
    /\ i = 0
    /\ file_path = None
    /\ sticker_data = NoBytes
    /\ fs = EmptyFs
    /\ events = <<>>
    /\ exit_status = -1
    /\ run = 1
    /\ prev_fs = EmptyFs
    /\ prev_events = <<>>
    /\ answers = <<>>
    /\ replay = <<>>

\* lines 13-17
Sanitize ==
    /\ pc = "sanitize"
    /\ s_out' = sanitize_filename(s_in)
    /\ pc' = "sanitized"
    /\ UNCHANGED <<argv, token, pack_url, convert_tgs, static_format, pack_name,
                   pack_info, pack_dir, i, file_path, sticker_data, fs, events,
                   exit_status, s_in, session, served>>

NextSanitize == Sanitize

SpecSanitize == InitSanitize /\ [][NextSanitize]_vars

(***************************************************************************)
(* Vocabulary of the properties                                            *)
(***************************************************************************)
Last(s) == s[Len(s)]

NumStickers == Len(pack_info.stickers)

Occurs(e) == \E k \in 1..Len(events) : events[k] = e

Positions(ev, what) ==
    {k \in 1..Len(events) : events[k].ev = ev /\ events[k].what = what}

\* the run has entered the loop over the stickers
Iterating == Positions("write", "manifest") # {}

Attempted(k) == Occurs(Ev("request", "getFile", FileId(k)))

FailedResolution(k) == Occurs(Ev("print", "failed_path", Decimal(k)))

FailedDownload(k) == Occurs(Ev("print", "failed_download", Decimal(k)))

Failed == {k \in 1..NumStickers : FailedResolution(k) \/ FailedDownload(k)}

Raised == Positions("print", "exception") # {}

NormalEnd == pc = "exit" /\ Positions("print", "complete") # {}

ManifestPath == PathJoin(pack_dir, ManifestName)

StickerFiles == {f \in fs.files : f.path # ManifestPath}

\* the number of descriptor k as the filenames show it
NumberPrefix(k) ==
    IF k < 10 THEN <<"0", "0", DigitChar(k)>>
    ELSE IF k < 100 THEN <<"0", DigitChar(k \div 10), DigitChar(k % 10)>>
    ELSE Decimal(k)

StartsWith(s, prefix) == Len(s) >= Len(prefix) /\ SubSeq(s, 1, Len(prefix)) = prefix

FilesOf(k) ==
    {f \in StickerFiles : StartsWith(f.path, PathJoin(pack_dir, NumberPrefix(k) \o <<"_">>))}

Extensions ==
    {<<".tgs">>, <<".json">>, <<".webp">>, <<".", "p", "n", "g">>, <<".", "j", "p", "e", "g">>}

ExpectedPaths(k) ==
    LET emoji == pack_info.stickers[k].emoji
        shown == sanitize_filename(IF emoji = <<>> THEN StickerWord ELSE emoji)
    IN  {PathJoin(pack_dir, NumberPrefix(k) \o <<"_">> \o shown \o ext) : ext \in Extensions}

(***************************************************************************)
(* C1: a sticker whose resolution is not ok or whose download is not 200   *)
(* does not abort the run: right after such a failure the loop is at the   *)
(* next descriptor (or at its normal end), and a run that ends without an  *)
(* exception has attempted every descriptor and has written exactly one    *)
(* file for each sticker that did not fail and none for those that did.    *)
(***************************************************************************)
C1_FetchFailuresDoNotAbort ==
    /\ (events # <<>> /\ Last(events).what \in {"failed_path", "failed_download"})
          => /\ Last(events).arg = Decimal(i)
             /\ pc = LoopNext(i)
             /\ exit_status = -1
    /\ (pc = "exit" /\ Iterating /\ ~Raised)
          => /\ NormalEnd
             /\ \A k \in 1..NumStickers :
                   /\ Attempted(k)
                   /\ Cardinality(FilesOf(k)) = (IF k \in Failed THEN 0 ELSE 1)
             /\ Cardinality(StickerFiles) = NumStickers - Cardinality(Failed)

C1_Witness ==
    /\ NormalEnd
    /\ NumStickers = 2
    /\ FailedDownload(1)
    /\ Cardinality(FilesOf(2)) = 1
    /\ Cardinality(StickerFiles) = 1

(***************************************************************************)
(* C2: a step that processes sticker i never aborts the run; when the      *)
(* write of sticker i fails the loop goes on with descriptor i+1.          *)
(* (Stated as claimed; the code leaves the loop when the write raises.)    *)
(***************************************************************************)
C2_WriteFailureContinues ==
    [][pc = "save" => (pc' = LoopNext(i + 1) /\ i' = i + 1 /\ exit_status' = -1)]_vars

(***************************************************************************)
(* C3: when every resolution, download and write of a pack of N stickers   *)
(* succeeds, there are exactly N sticker files and one manifest, and the   *)
(* file of descriptor k is named k padded to three digits, "_", the        *)
(* sanitized emoji (or "sticker") and an extension; in every state each    *)
(* sticker file carries the number of the position of its descriptor.      *)
(***************************************************************************)
C3_NumberedFiles ==
    /\ \A f \in StickerFiles :
          \E k \in 1..i : k \notin Failed /\ f.path \in ExpectedPaths(k)
    /\ (NormalEnd /\ Failed = {})
          => /\ Cardinality(StickerFiles) = NumStickers
             /\ Cardinality(fs.files) = NumStickers + 1
             /\ Cardinality(Positions("write", "sticker")) = NumStickers
             /\ Cardinality(Positions("write", "manifest")) = 1
             /\ \E f \in fs.files : f.path = ManifestPath
             /\ \A k \in 1..NumStickers :
                   \E f \in StickerFiles : f.path \in ExpectedPaths(k)

C3_Witness ==
    /\ NormalEnd
    /\ Failed = {}
    /\ NumStickers = 2
    /\ \E f \in StickerFiles :
          f.path = PathJoin(pack_dir, <<"0", "0", "2", "_", "a", ".json">>)
    /\ \E f \in StickerFiles :
          f.path = PathJoin(pack_dir, <<"0", "0", "1", "_">> \o StickerWord \o <<".", "p", "n", "g">>)

(***************************************************************************)
(* C4: a run that reached the loop over the stickers ends with a report in *)
(* which the number of failures equals the number of stickers for which no *)
(* file was written.  The code prints no totals; the failures it reports   *)
(* are the per-sticker lines of lines 123 and 133.                         *)
(* (Stated as claimed; a run that ends in the handler of line 176 reports  *)
(* none of the stickers it never wrote.)                                   *)
(***************************************************************************)
ReportedFailures ==
    Cardinality(Positions("print", "failed_path"))
    + Cardinality(Positions("print", "failed_download"))

C4_ReportedFailureCount ==
    (pc = "exit" /\ Iterating)
       => ReportedFailures = NumStickers - Cardinality(StickerFiles)

(***************************************************************************)
(* C5: a URL whose path has no "addstickers" segment, or has it only as    *)
(* its last segment, yields no identifier, and no getStickerSet request    *)
(* is ever made for it.                                                    *)
(* (Stated as claimed; the code takes the last segment, which for a path   *)
(* ending in the marker is the marker itself.)                             *)
(***************************************************************************)
PathParts == Split(UrlPath(argv.url))

MarkerAt == {k \in 1..Len(PathParts) : PathParts[k] = Marker}

FirstMarker == CHOOSE k \in MarkerAt : \A j \in MarkerAt : k <= j

MarkerMissingOrLast == MarkerAt = {} \/ FirstMarker = Len(PathParts)

C5_MarkerMissingOrLastRejected ==
    MarkerMissingOrLast
       => /\ ~Truthy(pack_name)
          /\ pc \notin {"metadata", "mkdir"}
          /\ Positions("request", "getStickerSet") = {}

(***************************************************************************)
(* C6: when the marker segment is followed by a (non-empty) segment, the   *)
(* identifier extracted is that segment, also when more segments follow,   *)
(* and it is not empty when the run goes on to the metadata request.       *)
(* (Stated as claimed; the code returns the last segment of the path.)     *)
(***************************************************************************)
Extracted ==
    \/ pc \in {"metadata", "mkdir"}
    \/ Positions("print", "invalid_url") # {}
    \/ Positions("request", "getStickerSet") # {}

C6_IdentifierFollowsMarker ==
    (Extracted /\ MarkerAt # {} /\ FirstMarker < Len(PathParts)
        /\ PathParts[FirstMarker + 1] # <<>>)
       => /\ pack_name = PathParts[FirstMarker + 1]
          /\ (pc \in {"metadata", "mkdir"} => pack_name # <<>>)

(***************************************************************************)
(* C7: a run that ends on an invalid URL, a missing token, a metadata      *)
(* answer that is not ok, or a failure to create the pack directory ends   *)
(* with a non-zero exit status and has made no getFile or download request.*)
(* (Stated as claimed; the code returns normally from the last two.)       *)
(***************************************************************************)
EndedFatally ==
    /\ pc = "exit"
    /\ events # <<>>
    /\ \/ Last(events).what \in {"invalid_url", "no_token", "api_error"}
       \/ Last(events) = Ev("print", "exception", <<"OSError", "makedirs">>)

C7_FatalEndsNonZero ==
    EndedFatally
       => /\ exit_status > 0
          /\ Positions("request", "getFile") = {}
          /\ Positions("request", "download") = {}

(***************************************************************************)
(* C8: the manifest is written at most once; its write comes after the     *)
(* getStickerSet request was answered and before every getFile request,    *)
(* every download and every sticker file write; and a sticker file is      *)
(* only written in a run that has written the manifest.                    *)
(***************************************************************************)
C8_ManifestOnceBeforeStickers ==
    LET manifest == Positions("write", "manifest")
        metadata == Positions("request", "getStickerSet")
        perSticker == Positions("request", "getFile") \cup Positions("request", "download")
                      \cup Positions("write", "sticker")
    IN  /\ Cardinality(manifest) <= 1
        /\ \A m \in manifest :
              /\ \E r \in metadata : r < m
              /\ \A w \in perSticker : m < w
        /\ Positions("write", "sticker") # {} => manifest # {}
        /\ StickerFiles # {} => \E f \in fs.files : f.path = ManifestPath

C8_Witness ==
    /\ NormalEnd
    /\ Cardinality(Positions("write", "manifest")) = 1
    /\ Cardinality(Positions("write", "sticker")) = 2
    /\ \E f \in fs.files : f.path = ManifestPath

(***************************************************************************)
(* C9: the result of sanitize_filename has none of the characters          *)
(* < > : " / \ | ? *, no newline and no carriage return, and at most 50    *)
(* characters; the empty name gives the empty name.                        *)
(***************************************************************************)
C9_SanitizedIsSafe ==
    pc = "sanitized"
       => /\ Range(s_out) \cap {"<", ">", ":", "\"", "/", "\\", "|", "?", "*", "\n", "\r"} = {}
          /\ Len(s_out) <= 50
          /\ (s_in = <<>> => s_out = <<>>)

C9_Witness ==
    /\ pc = "sanitized"
    /\ Len(s_in) > 50
    /\ Head(s_in) = "?"
    /\ Last(s_in) = "\n"
    /\ Len(s_out) = 50

(***************************************************************************)
(* C10: with conversion of animated stickers requested, an animated        *)
(* payload that cannot be decompressed or parsed is written as it was      *)
(* downloaded, under the extension .tgs, and the loop goes on.             *)
(***************************************************************************)
Unconvertible(data) ==
    \/ gzip_decompress(data) = None
    \/ json_loads(gzip_decompress(data)) = NoDoc

JustWroteSticker ==
    events # <<>> /\ Last(events).ev = "write" /\ Last(events).what = "sticker"

C10_CorruptAnimatedKept ==
    (JustWroteSticker /\ convert_tgs /\ EndsWith(file_path, TgsSuffix)
        /\ Unconvertible(sticker_data))
       => /\ EndsWith(Last(events).arg, <<".tgs">>)
          /\ [path |-> Last(events).arg, content |-> sticker_data] \in fs.files
          /\ Cardinality(FilesOf(i)) = 1
          /\ pc = LoopNext(i)
          /\ exit_status = -1

C10_Witness ==
    /\ JustWroteSticker
    /\ convert_tgs
    /\ EndsWith(file_path, TgsSuffix)
    /\ sticker_data = Junk
    /\ i = 2
    /\ Cardinality(StickerFiles) = 2

(***************************************************************************)
(* C17: the result of sanitize_filename has no leading and no trailing     *)
(* whitespace, also for names of more than 50 characters with whitespace   *)
(* in them, and sanitizing it once more gives the same name.               *)
(* (Stated as claimed; the code strips before it cuts to 50 characters.)   *)
(***************************************************************************)
C17_NoSurroundingWhitespace ==
    (pc = "sanitized" /\ s_out # <<>>)
       => /\ Head(s_out) \notin {" ", "\t", "\n", "\r"}
          /\ Last(s_out) \notin {" ", "\t", "\n", "\r"}
          /\ sanitize_filename(s_out) = s_out

(***************************************************************************)
(* C11: with conversion of animated stickers requested, an animated        *)
(* payload that decompresses and parses to a document D, the empty object  *)
(* and the empty list included, is written under the extension .json with  *)
(* a text that parses to D again.                                          *)
(* (Stated as claimed; the code tests the truth value of D, which is false *)
(* for an empty document.)                                                 *)
(***************************************************************************)
WrittenPath == Last(events).arg

C11_ParsedAnimatedWrittenAsJson ==
    (JustWroteSticker /\ convert_tgs /\ EndsWith(file_path, TgsSuffix)
        /\ ~Unconvertible(sticker_data))
       => /\ EndsWith(WrittenPath, <<".json">>)
          /\ \E f \in fs.files :
                /\ f.path = WrittenPath
                /\ f.content.enc = "utf8"
                /\ json_loads(f.content.body) = json_loads(gzip_decompress(sticker_data))

(***************************************************************************)
(* C12: a second run on the same command line that gets the same answers   *)
(* from the server never fails on the pack directory being there already;  *)
(* when the first run completed and nothing of the second run's own file   *)
(* operations fails, the second run completes as well, writes the same     *)
(* paths again, and leaves the same directories and the same files with    *)
(* the same contents as the first run left.                                *)
(***************************************************************************)
PrevNormalEnd ==
    prev_events # <<>> /\ Last(prev_events).what = "complete"

Written(evs) == {evs[k].arg : k \in {n \in 1..Len(evs) : evs[n].ev = "write"}}

C12_RerunIdempotent ==
    run = 2
       => /\ ~Occurs(Ev("print", "exception", <<"FileExistsError">>))
          /\ (pc = "exit" /\ PrevNormalEnd /\ ~Raised)
                => /\ NormalEnd
                   /\ fs = prev_fs
                   /\ events = prev_events
                   /\ Written(events) = {f.path : f \in fs.files}

C12_Witness ==
    /\ run = 2
    /\ NormalEnd
    /\ PrevNormalEnd
    /\ NumStickers = 2
    /\ Cardinality(Positions("write", "sticker")) = 2
    /\ Cardinality(fs.files) = 3
    /\ pack_dir \in prev_fs.dirs

(***************************************************************************)
(* C13: with PNG or JPEG requested, a static sticker that cannot be        *)
(* decoded or encoded is written as it was downloaded, under the suffix of *)
(* the resolved file path, whatever non-animated suffix that is, and the   *)
(* loop goes on.                                                           *)
(* (Stated as claimed; the extension of the code's fallback is always      *)
(* '.webp'.)                                                               *)
(***************************************************************************)
\* the written path ends as the resolved path does
KeepsSuffix == \E x \in KindSuffixes : EndsWith(file_path, x) /\ EndsWith(WrittenPath, x)

KeepsBytes == [path |-> WrittenPath, content |-> sticker_data] \in fs.files

C13_StaticFallbackKeepsSuffix ==
    (JustWroteSticker /\ ~EndsWith(file_path, TgsSuffix) /\ static_format \in {PNG, JPEG}
        /\ convert_webp_to_format(sticker_data, static_format) = NoBytes)
       => /\ KeepsSuffix
          /\ KeepsBytes
          /\ pc = LoopNext(i)
          /\ exit_status = -1

(***************************************************************************)
(* C14: when no conversion is requested for the kind of a sticker (an      *)
(* animated sticker without --convert-tgs, a static sticker with format    *)
(* WEBP), the file written has the downloaded bytes and the suffix of the  *)
(* resolved path, and no converter was called for it.                      *)
(* (Stated as claimed; the code writes every static sticker it does not    *)
(* convert under '.webp'.)                                                 *)
(***************************************************************************)
NoConversionRequested ==
    IF EndsWith(file_path, TgsSuffix) THEN ~convert_tgs ELSE static_format = WEBP

LastDownload ==
    CHOOSE p \in Positions("request", "download") :
        \A q \in Positions("request", "download") : q <= p

\* the converters called since the download of the sticker just written
CallsForWritten == {k \in LastDownload..Len(events) : events[k].ev = "call"}

C14_NoConversionKeepsOriginal ==
    (JustWroteSticker /\ NoConversionRequested)
       => /\ KeepsBytes
          /\ KeepsSuffix
          /\ CallsForWritten = {}

(***************************************************************************)
(* C15: a sticker is treated as animated exactly when the path the getFile *)
(* answer gave ends in '.tgs': then the file written ends in .tgs or       *)
(* .json and the picture converter is not called; otherwise it ends in     *)
(* .webp, .png or .jpeg and the animation converter is not called.  The    *)
(* flag is_animated of the descriptor has no part in it.                   *)
(***************************************************************************)
WrittenAs(exts) == \E x \in exts : EndsWith(WrittenPath, x)

ConvertersCalled == {events[k].what : k \in CallsForWritten}

C15_RoutedBySuffix ==
    JustWroteSticker
       => IF EndsWith(file_path, <<".tgs">>)
          THEN /\ WrittenAs({<<".tgs">>, <<".json">>})
               /\ "convert_webp_to_format" \notin ConvertersCalled
               /\ convert_tgs <=> "convert_tgs_to_lottie" \in ConvertersCalled
          ELSE /\ WrittenAs({<<".webp">>, <<".", "p", "n", "g">>, <<".", "j", "p", "e", "g">>})
               /\ "convert_tgs_to_lottie" \notin ConvertersCalled
               /\ static_format # WEBP <=> "convert_webp_to_format" \in ConvertersCalled

\* the flag says animated, the suffix says static, and the suffix wins
C15_Witness ==
    /\ JustWroteSticker
    /\ pack_info.stickers[i].is_animated
    /\ convert_tgs
    /\ EndsWith(file_path, <<".webp">>)
    /\ static_format = PNG
    /\ WrittenAs({<<".", "p", "n", "g">>})
    /\ ConvertersCalled = {"convert_webp_to_format"}

(***************************************************************************)
(* C16: for every sticker at most one getFile request and at most one      *)
(* download request is made; a download request comes right after the      *)
(* getFile request of the same sticker and only when that was answered ok; *)
(* a sticker file is written only after the download of that sticker was   *)
(* answered with status 200, with nothing between the two but the call of  *)
(* a converter.  A request that failed is not made again.                  *)
(***************************************************************************)
RequestsUpTo(p) == {q \in 1..p : events[q].ev = "request"}

\* the answer to the request at position p of events
AnswerAt(p) == answers[Cardinality(RequestsUpTo(p))]

ResolutionsOf(k) == {p \in Positions("request", "getFile") : events[p].arg = FileId(k)}

DownloadsOf(k) ==
    {p \in Positions("request", "download") :
        \E x \in Suffixes : events[p].arg = <<"stickers", "/">> \o FileId(k) \o x}

WritesOf(k) ==
    {p \in Positions("write", "sticker") :
        StartsWith(events[p].arg, PathJoin(pack_dir, NumberPrefix(k) \o <<"_">>))}

C16_OneRequestEach ==
    /\ Len(answers) = Cardinality(RequestsUpTo(Len(events)))
    /\ Positions("request", "getFile") = UNION {ResolutionsOf(k) : k \in 1..NumStickers}
    /\ Positions("request", "download") = UNION {DownloadsOf(k) : k \in 1..NumStickers}
    /\ Positions("write", "sticker") = UNION {WritesOf(k) : k \in 1..NumStickers}
    /\ \A k \in 1..NumStickers :
          /\ Cardinality(ResolutionsOf(k)) <= 1
          /\ Cardinality(DownloadsOf(k)) <= 1
          /\ \A p \in DownloadsOf(k) :
                /\ p - 1 \in ResolutionsOf(k)
                /\ AnswerAt(p - 1).kind = "ok"
                /\ AnswerAt(p - 1).path = events[p].arg
          /\ \A p \in WritesOf(k) :
                \E q \in DownloadsOf(k) :
                   /\ q < p
                   /\ AnswerAt(q).kind = "ok"
                   /\ \A n \in (q + 1)..(p - 1) : events[n].ev = "call"

C16_Witness ==
    /\ NormalEnd
    /\ NumStickers = 2
    /\ FailedDownload(1)
    /\ Cardinality(ResolutionsOf(1)) = 1
    /\ Cardinality(DownloadsOf(1)) = 1
    /\ WritesOf(1) = {}
    /\ Cardinality(DownloadsOf(2)) = 1
    /\ Cardinality(WritesOf(2)) = 1
    /\ Len(answers) = 5

(***************************************************************************)
(* C18: within one run no two sticker writes go to the same path and none  *)
(* goes to the path of the manifest: the filenames of distinct descriptors *)
(* of a pack differ from each other and from 'pack_info.txt' under every   *)
(* extension, whatever the emoji (equal, empty, or made of characters that *)
(* are all removed); so there is one file for every sticker written and    *)
(* the manifest stays as it was written.                                   *)
(***************************************************************************)
FilenamesOf(k) ==
    {StickerFilename(k - 1, pack_info.stickers[k].emoji, ext) : ext \in Extensions}

C18_DistinctPaths ==
    LET writes == Positions("write", "sticker")
    IN  /\ \A j, k \in 1..NumStickers :
              /\ j # k => FilenamesOf(j) \cap FilenamesOf(k) = {}
              /\ ManifestName \notin FilenamesOf(k)
        /\ \A p, q \in writes : p # q => events[p].arg # events[q].arg
        /\ \A p \in writes : events[p].arg # ManifestPath
        /\ Cardinality(StickerFiles) = Cardinality(writes)
        /\ Positions("write", "manifest") # {}
              => [path |-> ManifestPath,
                  content |-> [enc |-> "utf8", body |-> ManifestText]] \in fs.files

\* two stickers whose emoji are equal and are removed whole by sanitize_filename
C18_Witness ==
    /\ NormalEnd
    /\ NumStickers = 2
    /\ pack_info.stickers[1].emoji = <<"/">>
    /\ pack_info.stickers[2].emoji = <<"/">>
    /\ \E f \in StickerFiles : f.path = PathJoin(pack_dir, <<"0", "0", "1", "_", ".webp">>)
    /\ \E f \in StickerFiles : f.path = PathJoin(pack_dir, <<"0", "0", "2", "_", ".webp">>)
    /\ Cardinality(fs.files) = 3

(***************************************************************************)
(* C19: a run that fails before the output is prepared (no URL, no token,  *)
(* invalid static format, invalid URL, metadata answer not ok) leaves the  *)
(* filesystem as it was: no directory made, no file written.  The number   *)
(* of getStickerSet requests of a run is never more than one.              *)
(***************************************************************************)
FailedEarly ==
    /\ pc = "exit"
    /\ events # <<>>
    /\ Last(events).what \in {"usage", "no_token", "invalid_format", "invalid_url", "api_error"}

NothingWritten ==
    /\ fs = EmptyFs
    /\ Positions("mkdir", "pack_dir") = {}
    /\ Positions("write", "manifest") = {}
    /\ Positions("write", "sticker") = {}

MetadataRequests == Cardinality(Positions("request", "getStickerSet"))

UrlGiven == argv.url # None

UrlIsValid ==
    IF UrlGiven THEN extract_pack_name(argv.url) \notin {None, <<>>} ELSE FALSE

FormatIsValid ==
    IF argv.static_format = None THEN TRUE
    ELSE upper(argv.static_format) \in {WEBP, PNG, JPEG}

====
